---- MODULE Spec2Model ----
(***************************************************************************)
(* SELCAL decoder of selcald: the frame record (TonesRecord) and the       *)
(* two-window sliding decoder (TonesMonitor) of src/selcald/tones.py.      *)
(*                                                                         *)
(* Numbers.  Correlation values are modelled as integers (a fixed-point    *)
(* grid of the floats the driver produces); avg = tot / 16 is kept as the  *)
(* numerator tot and every comparison with avg is cross-multiplied, so the *)
(* arithmetic is exact.  Scores are kept in tenths: 1.0 is 10, 0.2 is 2.   *)
(* Python's negative list index (x[-1] is the last element) is modelled by *)
(* PyIdx.                                                                  *)
(***************************************************************************)
EXTENDS Integers, Sequences, FiniteSets, TLC

\* ------------------------------------------------------------- bounds
\* largest correlation value fed to a record
MaxCorr == 10
\* largest queue_window_size / min_group_cnt a decoder is created with
MaxWindow == 2
\* number of trackTones calls explored (tonesQ*MaxCnt only ever grow)
MaxCalls == 5

\* longest chunk, in bytes, a read of the byte stream returns
MaxBytes == 5
\* number of reads of the stream explored
MaxReads == 2

\* largest value in a vector handed to top2 on its own
MaxVal == 2

\* ------------------------------------------------- program constants
\* len(TONES)
NumTones == 16
\* TonesRecord.score_bin_size
score_bin_size == 5

Tones == 0 .. (NumTones - 1)

\* ALPHABET[i][:1], the first letter of each phonetic name
ALPHABET ==
    [t \in Tones |->
        <<"A", "B", "C", "D", "E", "F", "G", "H",
          "J", "K", "L", "M", "P", "Q", "R", "S">>[t + 1]]

\* Python list indexing: a negative index counts from the end of the list
PyIdx(i) == IF i < 0 THEN i + NumTones ELSE i

\* Python's None, where it is stored in a field that otherwise holds text
None == "None"

\* ------------------------------------------------------- TonesRecord
\* computeStats, first loop: the running maximum starts at 0.0 / index -1
\* and is replaced only by a strictly larger value; tot accumulates.
RECURSIVE ScanMax1(_, _, _, _, _)
ScanMax1(c, tone, max1, idx1, tot) ==
    IF tone = NumTones
        THEN [max1 |-> max1, idx1 |-> idx1, tot |-> tot]
        ELSE IF c[tone] > max1
            THEN ScanMax1(c, tone + 1, c[tone], tone, tot + c[tone])
            ELSE ScanMax1(c, tone + 1, max1, idx1, tot + c[tone])

\* the gap test of the second loop: (corr - max2) > (max1 - max2) / 4
GapTest(cv, max1, max2) == 4 * (cv - max2) > (max1 - max2)

\* computeStats, second loop: the runner-up, starting at 0.0 / index -1
RECURSIVE ScanMax2(_, _, _, _, _, _)
ScanMax2(c, tone, max1, idx1, max2, idx2) ==
    IF tone = NumTones
        THEN idx2
        ELSE IF (tone # idx1) /\ (c[tone] > max2) /\ GapTest(c[tone], max1, max2)
            THEN ScanMax2(c, tone + 1, max1, idx1, c[tone], tone)
            ELSE ScanMax2(c, tone + 1, max1, idx1, max2, idx2)

\* mutant: the comparison with avg is reversed
computeScoresBelowAvg(c, max1idx, max2idx, max, tot) ==
    [tone \in Tones |->
        IF (tone = max1idx) \/ (tone = max2idx)
            THEN 10
            ELSE IF NumTones * c[tone] < tot
                THEN ((score_bin_size * (NumTones * c[tone] - tot))
                        \div (NumTones * max - tot)) * (10 \div score_bin_size)
                ELSE 0]

\* computeScores: tenths of a point per tone.  avg = tot / NumTones, so
\* cv > avg is NumTones*cv > tot and int(dv / bin_corr) is the floor of
\* score_bin_size * (NumTones*cv - tot) / (NumTones*max - tot);
\* round(binIdx * (1 / score_bin_size), 1) is binIdx * 2 tenths.
computeScores(c, max1idx, max2idx, max, tot) ==
    [tone \in Tones |->
        IF (tone = max1idx) \/ (tone = max2idx)
            THEN 10
            ELSE IF NumTones * c[tone] > tot
                THEN ((score_bin_size * (NumTones * c[tone] - tot))
                        \div (NumTones * max - tot)) * (10 \div score_bin_size)
                ELSE 0]

\* computeStats: the two scans, the swap into ascending index order, the
\* digraph and the scores.
computeStats(c) ==
    LET s1   == ScanMax1(c, 0, 0, -1, 0)
        i2   == ScanMax2(c, 0, s1.max1, s1.idx1, 0, -1)
        idx1 == IF s1.idx1 > i2 THEN i2 ELSE s1.idx1
        idx2 == IF s1.idx1 > i2 THEN s1.idx1 ELSE i2
    IN  [corr    |-> c,
         max1idx |-> idx1,
         max2idx |-> idx2,
         max     |-> s1.max1,
         tot     |-> s1.tot,
         gtc     |-> ALPHABET[PyIdx(idx1)] \o ALPHABET[PyIdx(idx2)],
         scores  |-> computeScores(c, idx1, idx2, s1.max1, s1.tot)]

\* TonesRecord(corr): the constructor stores corr and calls computeStats
TonesRecord(c) == computeStats(c)

\* a correlation vector: background value bg with the tones of ov overridden
CorrVec(ov, bg) == [t \in Tones |-> IF t \in DOMAIN ov THEN ov[t] ELSE bg]

\* the frames fed to the decoder: the pairs AB, CD and BC with every other
\* tone at the background level, and AB with tones C and D just below it
corrAB   == CorrVec((0 :> MaxCorr) @@ (1 :> MaxCorr), 1)
corrCD   == CorrVec((2 :> MaxCorr) @@ (3 :> MaxCorr), 1)
corrBC   == CorrVec((1 :> MaxCorr) @@ (2 :> MaxCorr), 1)
corrABcd == CorrVec((0 :> MaxCorr) @@ (1 :> MaxCorr)
                    @@ (2 :> MaxCorr - 1) @@ (3 :> MaxCorr - 1), 1)
TrackCorr == {corrAB, corrCD, corrBC, corrABcd}

\* the correlation vectors a record is built from in SpecRec
ActiveTones == {0, 1, 2, 3, 15}
CorrVals    == {-1, 0, 1, MaxCorr \div 2, MaxCorr - 1, MaxCorr}
Backgrounds == {-1, 0, 1}
CorrInputs  ==
    {CorrVec(ov, bg) : ov \in [ActiveTones -> CorrVals], bg \in Backgrounds}

\* no record built yet
NoRecord == [gtc |-> None]

\* ------------------------------------------------------ TonesMonitor
VARIABLES
    corr,               \* the correlation vector of the current frame
    trec,               \* the TonesRecord built from it
    queue_window_size,  \* trackTones arguments, fixed for a decoder's run
    min_group_cnt,
    min_score,          \* in tenths
    tonesQ1, tonesQ2,   \* deques of TonesRecord, oldest first
    tonesCnt1, tonesCnt2,         \* dicts gtc -> count, in insertion order
    tonesQ1Score, tonesQ2Score,   \* per-tone running score, in tenths
    tonesQ1MaxCnt, tonesQ2MaxCnt, \* per-tone running count of max tones
    lastSelcall, lastSelcall_BS,  \* latches: <<>> or <<tgc1, tgc2>>
    res,                \* the dict trackTones returned
    score_line,         \* the "Score:" line trackByScore printed
    log,                \* the events appended to the log file
    own,                \* the names of the attributes that are instance
                        \* attributes of the decoder (assigned through
                        \* self); every other name resolves to the class
                        \* attribute, one object for all instances
    mon2,               \* a second TonesMonitor of the same process, as
                        \* its attributes resolve (NoMonitor: none made)
    fed2,               \* history: the records fed to the second one
    pc,                 \* monitor_stream: "read" before a read of the
                        \* stream, "frames" in the loop over the frames,
                        \* "done" after the break, "raised" once an
                        \* exception has left it
    data,               \* read_s16le: the bytes the last read returned
    sig_noise,          \* read_s16le: the samples decoded from them
    reads,              \* the number of reads of the stream so far
    inp_sig_rate,       \* the --sig-rate the driver runs with
    chunk,              \* the decoded chunk being processed: its number of
                        \* samples and what it carries
    frames, frame,      \* the frames of the chunk, the current frame
    sums,               \* the correlation sums of the current frame
    fed,                \* history: the records fed so far, in order
    run_M, run_S,       \* history: events written by each method since the
                        \* last call on which its condition was false
    top2_vals, top2_excluded, \* top2 called on its own: its two arguments
    top2_out            \* and the dict it returned

vars == <<corr, trec, queue_window_size, min_group_cnt, min_score,
          tonesQ1, tonesQ2, tonesCnt1, tonesCnt2,
          tonesQ1Score, tonesQ2Score, tonesQ1MaxCnt, tonesQ2MaxCnt,
          lastSelcall, lastSelcall_BS, res, score_line, log,
          own, mon2, fed2, pc, data, sig_noise, reads,
          inp_sig_rate, chunk, frames, frame, sums, fed, run_M, run_S,
          top2_vals, top2_excluded, top2_out>>

\* the variables of a call of top2 on its own
top2Vars == <<top2_vals, top2_excluded, top2_out>>

\* the variables of the stream driver around the decoder
streamVars == <<data, sig_noise, reads, inp_sig_rate, chunk, frames, frame,
                sums>>

\* [0] * len(TONES)
Zeros == [t \in Tones |-> 0]

\* dict helpers: a dict is a sequence of [gtc, n] in insertion order
HasKey(tonesQ, gtc) == \E i \in 1 .. Len(tonesQ) : tonesQ[i].gtc = gtc

incCounter(tonesQ, gtc) ==
    IF ~HasKey(tonesQ, gtc)
        THEN Append(tonesQ, [gtc |-> gtc, n |-> 1])
        ELSE [i \in 1 .. Len(tonesQ) |->
                IF tonesQ[i].gtc = gtc
                    THEN [tonesQ[i] EXCEPT !.n = @ + 1]
                    ELSE tonesQ[i]]

decCounter(tonesQ, gtc) ==
    IF HasKey(tonesQ, gtc)
        THEN [i \in 1 .. Len(tonesQ) |->
                IF tonesQ[i].gtc = gtc
                    THEN [tonesQ[i] EXCEPT !.n = @ - 1]
                    ELSE tonesQ[i]]
        ELSE tonesQ

\* tonesQMaxCnt[max1idx] += 1; tonesQMaxCnt[max2idx] += 1
BumpMaxCnt(tonesQMaxCnt, rec) ==
    LET a == [tonesQMaxCnt EXCEPT ![PyIdx(rec.max1idx)] = @ + 1]
    IN  [a EXCEPT ![PyIdx(rec.max2idx)] = @ + 1]

incScores(toneQScores, tonesQMaxCnt, rec) ==
    [score  |-> [tone \in Tones |-> toneQScores[tone] + rec.scores[tone]],
     maxcnt |-> BumpMaxCnt(tonesQMaxCnt, rec)]

\* the eviction subtracts only from a strictly positive running score, and
\* adds to the max counts like incScores does
decScores(toneQScores, tonesQMaxCnt, rec) ==
    [score  |-> [tone \in Tones |->
                    IF toneQScores[tone] > 0
                        THEN toneQScores[tone] - rec.scores[tone]
                        ELSE toneQScores[tone]],
     maxcnt |-> BumpMaxCnt(tonesQMaxCnt, rec)]

\* resetToneScores assigns tonesQ1MaxCnt twice and tonesQ2MaxCnt never;
\* an assignment through self binds the name in the instance
resetToneScores(self) ==
    [self EXCEPT !.tonesQ1Score  = Zeros,
                 !.tonesQ2Score  = Zeros,
                 !.tonesQ1MaxCnt = Zeros,
                 !.own = @ \cup {"tonesQ1Score", "tonesQ2Score",
                                 "tonesQ1MaxCnt"}]

\* the attributes TonesMonitor declares in the class body; __init__ binds
\* only freq_hz and selcall_log_fn in the instance
ClassAttrs ==
    {"tonesQ1", "tonesQ2", "tonesCnt1", "tonesCnt2",
     "tonesQ1Score", "tonesQ2Score", "tonesQ1MaxCnt", "tonesQ2MaxCnt",
     "lastSelcall", "lastSelcall_BS"}

\* the decoder object, as one record of its fields and its log file;
\* log_ok tells whether the log file can be opened and written during the
\* call, raised whether an exception is propagating out of the call
Self ==
    [tonesQ1 |-> tonesQ1, tonesQ2 |-> tonesQ2,
     tonesCnt1 |-> tonesCnt1, tonesCnt2 |-> tonesCnt2,
     tonesQ1Score |-> tonesQ1Score, tonesQ2Score |-> tonesQ2Score,
     tonesQ1MaxCnt |-> tonesQ1MaxCnt, tonesQ2MaxCnt |-> tonesQ2MaxCnt,
     lastSelcall |-> lastSelcall, lastSelcall_BS |-> lastSelcall_BS,
     log |-> log, log_ok |-> TRUE, raised |-> FALSE, own |-> own]

\* trackByMaxTones, queue maintenance: the new record enters Q2
Enqueue(self, rec) ==
    LET in2 == incScores(self.tonesQ2Score, self.tonesQ2MaxCnt, rec)
    IN  [self EXCEPT !.tonesQ2       = Append(@, rec),
                     !.tonesCnt2     = incCounter(@, rec.gtc),
                     !.tonesQ2Score  = in2.score,
                     !.tonesQ2MaxCnt = in2.maxcnt]

\* Q1's oldest record is dropped
DropOldest(self, rec) ==
    LET out1 == decScores(self.tonesQ1Score, self.tonesQ1MaxCnt, rec)
    IN  [self EXCEPT !.tonesQ1       = Tail(@),
                     !.tonesCnt1     = decCounter(@, rec.gtc),
                     !.tonesQ1Score  = out1.score,
                     !.tonesQ1MaxCnt = out1.maxcnt]

\* mutant: the record that leaves Q2 enters Q1 at its front
RollOldestToFront(self, last) ==
    LET out2 == decScores(self.tonesQ2Score, self.tonesQ2MaxCnt, last)
        in1  == incScores(self.tonesQ1Score, self.tonesQ1MaxCnt, last)
    IN  [self EXCEPT !.tonesQ2       = Tail(@),
                     !.tonesCnt2     = decCounter(@, last.gtc),
                     !.tonesQ2Score  = out2.score,
                     !.tonesQ2MaxCnt = out2.maxcnt,
                     !.tonesQ1       = <<last>> \o @,
                     !.tonesCnt1     = incCounter(@, last.gtc),
                     !.tonesQ1Score  = in1.score,
                     !.tonesQ1MaxCnt = in1.maxcnt]

\* Q2's oldest record rolls into Q1
RollOldest(self, last) ==
    LET out2 == decScores(self.tonesQ2Score, self.tonesQ2MaxCnt, last)
        in1  == incScores(self.tonesQ1Score, self.tonesQ1MaxCnt, last)
    IN  [self EXCEPT !.tonesQ2       = Tail(@),
                     !.tonesCnt2     = decCounter(@, last.gtc),
                     !.tonesQ2Score  = out2.score,
                     !.tonesQ2MaxCnt = out2.maxcnt,
                     !.tonesQ1       = Append(@, last),
                     !.tonesCnt1     = incCounter(@, last.gtc),
                     !.tonesQ1Score  = in1.score,
                     !.tonesQ1MaxCnt = in1.maxcnt]

\* mutant: Q1 is trimmed one record late
TrimQ1Late(self, w) ==
    IF Len(self.tonesQ1) > w + 1
        THEN DropOldest(self, Head(self.tonesQ1))
        ELSE self

\* past the window size, Q1 drops its oldest record
TrimQ1(self, w) ==
    IF Len(self.tonesQ1) > w
        THEN DropOldest(self, Head(self.tonesQ1))
        ELSE self

\* past the window size, Q2 hands its oldest record to Q1
TrimQ2(self, w) ==
    IF Len(self.tonesQ2) > w
        THEN TrimQ1(RollOldest(self, Head(self.tonesQ2)), w)
        ELSE self

Maintain(self, rec, w) == TrimQ2(Enqueue(self, rec), w)

\* the scan of tonesCnt2: the first key with the strictly largest count > 0
RECURSIVE ScanCnt2(_, _, _, _)
ScanCnt2(cnt, i, max_tgc, max_cnt) ==
    IF i > Len(cnt)
        THEN [tgc |-> max_tgc, cnt |-> max_cnt]
        ELSE IF cnt[i].n > max_cnt
            THEN ScanCnt2(cnt, i + 1, cnt[i].gtc, cnt[i].n)
            ELSE ScanCnt2(cnt, i + 1, max_tgc, max_cnt)

\* the scan of tonesCnt1, which skips the code that won in Q2
RECURSIVE ScanCnt1(_, _, _, _, _)
ScanCnt1(cnt, i, q2_max_tgc, max_tgc, max_cnt) ==
    IF i > Len(cnt)
        THEN [tgc |-> max_tgc, cnt |-> max_cnt]
        ELSE IF (cnt[i].gtc # q2_max_tgc) /\ (cnt[i].n > max_cnt)
            THEN ScanCnt1(cnt, i + 1, q2_max_tgc, cnt[i].gtc, cnt[i].n)
            ELSE ScanCnt1(cnt, i + 1, q2_max_tgc, max_tgc, max_cnt)

\* mutant: the count of Q1's code is not tested
ActiveByMaxTonesNoQ1Cnt(q1, q2, mgc) ==
    (q2.cnt >= mgc) /\ (q1.tgc # q2.tgc)

\* mutant: one window reaching min_group_cnt is enough
ActiveByMaxTonesEither(q1, q2, mgc) ==
    ((q1.cnt >= mgc) \/ (q2.cnt >= mgc)) /\ (q1.tgc # q2.tgc)

\* "Have we encounter active selcall ?"
ActiveByMaxTones(q1, q2, mgc) ==
    (q1.cnt >= mgc) /\ (q2.cnt >= mgc) /\ (q1.tgc # q2.tgc)

\* the log line of an event, without its timestamp and frequency
Event(selcal, tag) == [selcal |-> selcal, tag |-> tag]

\* writeStringToFile: open the file in append mode and write the item; an
\* error of open() or write() is not caught and leaves as an exception
writeStringToFile(self, item) ==
    IF self.log_ok
        THEN [self EXCEPT !.log = Append(@, item)]
        ELSE [self EXCEPT !.raised = TRUE]

\* mutant: the event is appended whether or not a pair is latched
LatchByMaxTonesAlways(self, q1, q2) ==
    writeStringToFile([self EXCEPT !.lastSelcall = <<q1.tgc, q2.tgc>>,
                                   !.own = @ \cup {"lastSelcall"}],
                      Event(q1.tgc \o "-" \o q2.tgc, "SELCAL_BYMAXTONE"))

\* the rising edge of method 1: latch the pair and append the event
LatchByMaxTones(self, q1, q2) ==
    IF Len(self.lastSelcall) = 0
        THEN writeStringToFile(
                [self EXCEPT !.lastSelcall = <<q1.tgc, q2.tgc>>,
                             !.own = @ \cup {"lastSelcall"}],
                Event(q1.tgc \o "-" \o q2.tgc, "SELCAL_BYMAXTONE"))
        ELSE self

\* mutant: the falling edge of method 1 also empties the two queues
UnlatchByMaxTonesAndQueues(self) ==
    IF Len(self.lastSelcall) > 0
        THEN [self EXCEPT !.tonesQ1 = <<>>,
                          !.tonesQ2 = <<>>,
                          !.tonesCnt1 = <<>>,
                          !.tonesCnt2 = <<>>,
                          !.lastSelcall = <<>>,
                          !.own = @ \cup {"tonesCnt1", "tonesCnt2",
                                          "lastSelcall"}]
        ELSE self

\* the falling edge of method 1: both counter dicts are replaced by {}
UnlatchByMaxTones(self) ==
    IF Len(self.lastSelcall) > 0
        THEN [self EXCEPT !.tonesCnt1 = <<>>,
                          !.tonesCnt2 = <<>>,
                          !.lastSelcall = <<>>,
                          !.own = @ \cup {"tonesCnt1", "tonesCnt2",
                                          "lastSelcall"}]
        ELSE self

\* the scans of the counters, the active test and the edge handling
DecideByMaxTones(m, mgc, r) ==
    LET q2 == ScanCnt2(m.tonesCnt2, 1, None, 0)
        q1 == ScanCnt1(m.tonesCnt1, 1, q2.tgc, None, 0)
        on == ActiveByMaxTones(q1, q2, mgc)
    IN  [self |-> IF on THEN LatchByMaxTones(m, q1, q2)
                        ELSE UnlatchByMaxTones(m),
         res  |-> [r EXCEPT
                    !.is_active = on,
                    !.selcal    = IF on THEN q1.tgc \o "-" \o q2.tgc ELSE None,
                    !.tg1 = q1.tgc, !.tg1_cnt = q1.cnt,
                    !.tg2 = q2.tgc, !.tg2_cnt = q2.cnt]]

trackByMaxTones(self, rec, w, mgc, r) ==
    DecideByMaxTones(Maintain(self, rec, w), mgc, r)

\* top2's loop; max1 and max2 start at -1 (-10 tenths), the indexes at -1
RECURSIVE top2Scan(_, _, _, _, _, _, _)
top2Scan(vals, excluded_idx, tone, idx1, max1, idx2, max2) ==
    IF tone = NumTones
        THEN [idx1 |-> idx1, idx2 |-> idx2]
        ELSE IF tone \in excluded_idx
            THEN top2Scan(vals, excluded_idx, tone + 1, idx1, max1, idx2, max2)
            ELSE IF vals[tone] > max1
                THEN IF idx1 >= 0
                    THEN top2Scan(vals, excluded_idx, tone + 1,
                                  tone, vals[tone], idx1, max1)
                    ELSE top2Scan(vals, excluded_idx, tone + 1,
                                  tone, vals[tone], idx2, max2)
                ELSE IF vals[tone] > max2
                    THEN top2Scan(vals, excluded_idx, tone + 1,
                                  idx1, max1, tone, vals[tone])
                    ELSE top2Scan(vals, excluded_idx, tone + 1,
                                  idx1, max1, idx2, max2)

\* mutant: the running maxima start at 0, as computeStats starts them
top2FromZero(vals, excluded_idx) ==
    LET s  == top2Scan(vals, excluded_idx, 0, -1, 0, -1, 0)
        i1 == IF s.idx1 > s.idx2 THEN s.idx2 ELSE s.idx1
        i2 == IF s.idx1 > s.idx2 THEN s.idx1 ELSE s.idx2
    IN  [idx |-> <<i1, i2>>,
         val |-> <<vals[PyIdx(i1)], vals[PyIdx(i2)]>>]

\* mutant: the indexes are returned as the scan left them, largest value
\* first
top2Unordered(vals, excluded_idx) ==
    LET s == top2Scan(vals, excluded_idx, 0, -1, -10, -1, -10)
    IN  [idx |-> <<s.idx1, s.idx2>>,
         val |-> <<vals[PyIdx(s.idx1)], vals[PyIdx(s.idx2)]>>]

\* top2: the scan, then the indexes in ascending order; idx and val are the
\* two-element lists of the result (idx[1] is Python's idx[0])
top2(vals, excluded_idx) ==
    LET s  == top2Scan(vals, excluded_idx, 0, -1, -10, -1, -10)
        i1 == IF s.idx1 > s.idx2 THEN s.idx2 ELSE s.idx1
        i2 == IF s.idx1 > s.idx2 THEN s.idx1 ELSE s.idx2
    IN  [idx |-> <<i1, i2>>,
         val |-> <<vals[PyIdx(i1)], vals[PyIdx(i2)]>>]

\* mutant: only the scores of Q2 are tested
ScoresReachQ2Only(top2Q1, top2Q2, ms) ==
    /\ top2Q2.val[1] >= ms
    /\ top2Q2.val[2] >= ms

\* all four top scores reach min_score
ScoresReach(top2Q1, top2Q2, ms) ==
    /\ top2Q1.val[1] >= ms
    /\ top2Q1.val[2] >= ms
    /\ top2Q2.val[1] >= ms
    /\ top2Q2.val[2] >= ms

\* "Confirm Q1 and Q2 tgc are not overlapping"
NotOverlapping(top2Q1, top2Q2) ==
    /\ top2Q1.idx[1] # top2Q2.idx[1]
    /\ top2Q1.idx[1] # top2Q2.idx[2]
    /\ top2Q1.idx[2] # top2Q2.idx[1]
    /\ top2Q1.idx[2] # top2Q2.idx[2]

\* the two-letter code of a top2 result
ScoreTgc(t2) == ALPHABET[PyIdx(t2.idx[1])] \o ALPHABET[PyIdx(t2.idx[2])]

\* the rising edge of method 2
LatchByScore(self, tgc1, tgc2) ==
    IF Len(self.lastSelcall_BS) = 0
        THEN writeStringToFile(
                [self EXCEPT !.lastSelcall_BS = <<tgc1, tgc2>>,
                             !.own = @ \cup {"lastSelcall_BS"}],
                Event(tgc1 \o "-" \o tgc2, "SELCAL_BYSCORE"))
        ELSE self

\* the falling edge of method 2
UnlatchByScore(self) ==
    IF Len(self.lastSelcall_BS) > 0
        THEN [resetToneScores(self) EXCEPT
                !.lastSelcall_BS = <<>>,
                !.own = @ \cup {"lastSelcall_BS"}]
        ELSE self

\* trackByScore: when the scores reach min_score but the pairs overlap,
\* neither branch runs and res keeps what it held
trackByScore(self, rec, w, ms, r) ==
    LET top2Q1 == top2(self.tonesQ1Score, {})
        top2Q2 == top2(self.tonesQ2Score, {top2Q1.idx[1], top2Q1.idx[2]})
        tgc1   == ScoreTgc(top2Q1)
        tgc2   == ScoreTgc(top2Q2)
    IN  [line |-> [Q1 |-> top2Q1, Q2 |-> top2Q2],
         self |-> IF ScoresReach(top2Q1, top2Q2, ms)
                    THEN IF NotOverlapping(top2Q1, top2Q2)
                            THEN LatchByScore(self, tgc1, tgc2)
                            ELSE self
                    ELSE UnlatchByScore(self),
         res  |-> IF ScoresReach(top2Q1, top2Q2, ms)
                    THEN IF NotOverlapping(top2Q1, top2Q2)
                            THEN [r EXCEPT !.is_active_BS = "True",
                                           !.selcal_BS = tgc1 \o "-" \o tgc2]
                            ELSE r
                    ELSE [r EXCEPT !.is_active_BS = "False",
                                   !.selcal_BS = None]]

\* the res dict trackTones starts from; it has no is_active_BS key yet
NewRes(rec) ==
    [current_tgc |-> rec.gtc, is_active |-> FALSE, selcal |-> None,
     selcal_BS |-> None, is_active_BS |-> "absent",
     tg1 |-> None, tg1_cnt |-> 0, tg2 |-> None, tg2_cnt |-> 0]

\* no Score line printed
NoLine == [Q1 |-> [idx |-> <<-1, -1>>, val |-> <<0, 0>>],
           Q2 |-> [idx |-> <<-1, -1>>, val |-> <<0, 0>>]]

\* trackTones: method 1, then method 2; an exception raised in method 1
\* skips method 2 (printed: whether the Score line was printed)
trackTones(self, rec, w, mgc, ms) ==
    LET m1 == trackByMaxTones(self, rec, w, mgc, NewRes(rec))
        m2 == trackByScore(m1.self, rec, w, ms, m1.res)
    IN  IF m1.self.raised
            THEN [self |-> m1.self, res |-> m1.res,
                  line |-> NoLine, printed |-> FALSE]
            ELSE [self |-> m2.self, res |-> m2.res,
                  line |-> m2.line, printed |-> TRUE]

\* ------------------------------------------------------ specification
\* trackTones arguments a decoder is run with
WindowSizes == 1 .. MaxWindow
MinGroupCnts == 0 .. MaxWindow
MinScores == {0, 10}

\* no frame correlated yet
NoSums == <<>>

\* no chunk read yet
NoChunk == [len |-> 0, kind |-> "none"]

\* the driver before its first read, at the default --sig-rate
InitStream ==
    /\ data = <<>>
    /\ sig_noise = <<>>
    /\ reads = 0
    /\ inp_sig_rate = 11025
    /\ chunk = NoChunk
    /\ frames = 0
    /\ frame = 0
    /\ sums = NoSums

\* top2 not called on its own
NoTop2 == [idx |-> <<>>, val |-> <<>>]

InitTop2Idle ==
    /\ top2_vals = Zeros
    /\ top2_excluded = {}
    /\ top2_out = NoTop2

\* no second decoder: monitor_stream makes one TonesMonitor
NoMonitor == [own |-> {}]

\* the class attributes of TonesMonitor, before any frame
InitMonitor ==
    /\ tonesQ1 = <<>> /\ tonesQ2 = <<>>
    /\ tonesCnt1 = <<>> /\ tonesCnt2 = <<>>
    /\ tonesQ1Score = Zeros /\ tonesQ2Score = Zeros
    /\ tonesQ1MaxCnt = Zeros /\ tonesQ2MaxCnt = Zeros
    /\ lastSelcall = <<>> /\ lastSelcall_BS = <<>>
    /\ res = NewRes(NoRecord)
    /\ score_line = NoLine
    /\ log = <<>>
    /\ own = {}
    /\ fed2 = <<>>
    /\ fed = <<>>
    /\ run_M = 0 /\ run_S = 0

Init ==
    /\ corr = Zeros
    /\ trec = NoRecord
    /\ queue_window_size \in WindowSizes
    /\ min_group_cnt \in MinGroupCnts
    /\ min_score \in MinScores
    /\ mon2 = NoMonitor
    /\ pc = "frames"
    /\ InitStream
    /\ InitMonitor
    /\ InitTop2Idle

\* the events of each method in a log
EventsOf(l, tag) == Len(SelectSeq(l, LAMBDA e : e.tag = tag))

\* one frame of monitor_stream: build the record, track it; ok tells
\* whether the log file is writable during the call
Frame(c, ok) ==
    LET rec == TonesRecord(c)
    IN  [rec |-> rec,
         out |-> trackTones([Self EXCEPT !.log_ok = ok], rec,
                            queue_window_size, min_group_cnt, min_score)]

\* the loop body for one frame; an exception that leaves trackTones is
\* caught nowhere and ends monitor_stream, the result is not assigned
TrackFrame(c, f) ==
    \E wroteM \in {EventsOf(f.out.self.log, "SELCAL_BYMAXTONE")
                    - EventsOf(log, "SELCAL_BYMAXTONE")} :
    \E wroteS \in {EventsOf(f.out.self.log, "SELCAL_BYSCORE")
                    - EventsOf(log, "SELCAL_BYSCORE")} :
        /\ pc = "frames"
        /\ corr' = c
        /\ trec' = f.rec
        /\ tonesQ1' = f.out.self.tonesQ1
        /\ tonesQ2' = f.out.self.tonesQ2
        /\ tonesCnt1' = f.out.self.tonesCnt1
        /\ tonesCnt2' = f.out.self.tonesCnt2
        /\ tonesQ1Score' = f.out.self.tonesQ1Score
        /\ tonesQ2Score' = f.out.self.tonesQ2Score
        /\ tonesQ1MaxCnt' = f.out.self.tonesQ1MaxCnt
        /\ tonesQ2MaxCnt' = f.out.self.tonesQ2MaxCnt
        /\ lastSelcall' = f.out.self.lastSelcall
        /\ lastSelcall_BS' = f.out.self.lastSelcall_BS
        /\ log' = f.out.self.log
        /\ own' = f.out.self.own
        /\ pc' = IF f.out.self.raised THEN "raised" ELSE "frames"
        /\ res' = IF f.out.self.raised THEN res ELSE f.out.res
        /\ score_line' = IF f.out.printed THEN f.out.line ELSE score_line
        /\ fed' = Append(fed, f.rec)
        /\ run_M' = IF f.out.self.raised THEN run_M
                    ELSE IF f.out.res.is_active THEN run_M + wroteM ELSE 0
        /\ run_S' = IF f.out.self.raised THEN run_S
                    ELSE IF f.out.res.is_active_BS = "True"
                        THEN run_S + wroteS ELSE 0
        /\ UNCHANGED <<queue_window_size, min_group_cnt, min_score>>
        /\ UNCHANGED top2Vars

\* a frame of the stream: the call returns, or, when it opens the log file
\* and the file cannot be written, raises
Track ==
    \E c \in TrackCorr :
    \E f \in {Frame(c, TRUE)} :
        /\ Len(fed) < MaxCalls
        /\ \/ TrackFrame(c, f)
           \/ /\ f.out.self.log # log
              /\ \E g \in {Frame(c, FALSE)} : TrackFrame(c, g)
        /\ UNCHANGED <<mon2, fed2>>
        /\ UNCHANGED streamVars

Next == Track

Spec == Init /\ [][Next]_vars

\* frame analysis alone: a record is built from any correlation vector
Analyze ==
    /\ trec = NoRecord
    /\ trec' = TonesRecord(corr)
    /\ UNCHANGED <<corr, queue_window_size, min_group_cnt, min_score,
                   tonesQ1, tonesQ2, tonesCnt1, tonesCnt2,
                   tonesQ1Score, tonesQ2Score, tonesQ1MaxCnt, tonesQ2MaxCnt,
                   lastSelcall, lastSelcall_BS, res, score_line, log,
                   own, mon2, fed2, pc, fed, run_M, run_S>>
    /\ UNCHANGED streamVars
    /\ UNCHANGED top2Vars

InitRec ==
    /\ corr \in CorrInputs
    /\ trec = NoRecord
    /\ queue_window_size = 1
    /\ min_group_cnt = 1
    /\ min_score = 10
    /\ mon2 = NoMonitor
    /\ pc = "frames"
    /\ InitStream
    /\ InitMonitor
    /\ InitTop2Idle

NextRec == Analyze

SpecRec == InitRec /\ [][NextRec]_vars

\* top2 alone: the vectors and the excluded indexes it is called with.
\* The tones of Top2Free take every value up to MaxVal, the other tones one
\* common value; the excluded indexes are some of Top2Some, alone or with
\* the whole of Top2Block
Top2Free == {0, 1, 2, 14, 15}
Top2Some == {0, 1, 15}
Top2Block == 3 .. 13
Top2Inputs ==
    {[t \in Tones |-> IF t \in Top2Free THEN f[t] ELSE bg] :
        f \in [Top2Free -> 0 .. MaxVal], bg \in {0, MaxVal}}
Top2Excluded ==
    {a \cup b : a \in SUBSET Top2Some, b \in {{}, Top2Block}}

InitTop2 ==
    /\ top2_vals \in Top2Inputs
    /\ top2_excluded \in Top2Excluded
    /\ top2_out = NoTop2
    /\ corr = Zeros
    /\ trec = NoRecord
    /\ queue_window_size = 1
    /\ min_group_cnt = 1
    /\ min_score = 10
    /\ mon2 = NoMonitor
    /\ pc = "frames"
    /\ InitStream
    /\ InitMonitor

\* top2(top2_vals, top2_excluded)
CallTop2 ==
    /\ top2_out = NoTop2
    /\ top2_out' = top2(top2_vals, top2_excluded)
    /\ UNCHANGED <<top2_vals, top2_excluded>>
    /\ UNCHANGED <<corr, trec, queue_window_size, min_group_cnt, min_score,
                   tonesQ1, tonesQ2, tonesCnt1, tonesCnt2,
                   tonesQ1Score, tonesQ2Score, tonesQ1MaxCnt, tonesQ2MaxCnt,
                   lastSelcall, lastSelcall_BS, res, score_line, log,
                   own, mon2, fed2, pc, fed, run_M, run_S>>
    /\ UNCHANGED streamVars

NextTop2 == CallTop2

SpecTop2 == InitTop2 /\ [][NextTop2]_vars

\* two decoders in one process.  A name that neither instance has bound
\* resolves, for both, to the one object of the class: other is a decoder
\* as its attributes resolve, caller_own the instance attributes of the
\* decoder trackTones was called on, m that decoder after the queue
\* maintenance, which mutates its objects in place (append, popleft, item
\* assignment) before any assignment through self rebinds a name.
SeenBy(other, caller_own, m) ==
    [k \in DOMAIN other |->
        IF (k \in ClassAttrs) /\ (k \notin other.own) /\ (k \notin caller_own)
            THEN m[k]
            ELSE other[k]]

\* TonesMonitor(freq_hz, selcall_log_fn): nothing but the two arguments is
\* bound in the new instance
FreshMonitor ==
    [tonesQ1 |-> <<>>, tonesQ2 |-> <<>>,
     tonesCnt1 |-> <<>>, tonesCnt2 |-> <<>>,
     tonesQ1Score |-> Zeros, tonesQ2Score |-> Zeros,
     tonesQ1MaxCnt |-> Zeros, tonesQ2MaxCnt |-> Zeros,
     lastSelcall |-> <<>>, lastSelcall_BS |-> <<>>,
     log |-> <<>>, log_ok |-> TRUE, raised |-> FALSE, own |-> {}]

\* the frames fed to either decoder
TwoCorr == {corrAB, corrCD}

InitTwo ==
    /\ corr = Zeros
    /\ trec = NoRecord
    /\ queue_window_size \in WindowSizes
    /\ min_group_cnt = 1
    /\ min_score = 10
    /\ mon2 = FreshMonitor
    /\ pc = "frames"
    /\ InitStream
    /\ InitMonitor
    /\ InitTop2Idle

\* trackTones on the first decoder
TrackFirst(c) ==
    \E f \in {Frame(c, TRUE)} :
        /\ Len(fed) + Len(fed2) < MaxCalls
        /\ TrackFrame(c, f)
        /\ mon2' = SeenBy(mon2, own, Maintain(Self, f.rec, queue_window_size))
        /\ fed2' = fed2
        /\ UNCHANGED streamVars

\* a frame tracked by the second decoder
Frame2(c) ==
    LET rec == TonesRecord(c)
    IN  [rec |-> rec,
         m   |-> Maintain(mon2, rec, queue_window_size),
         out |-> trackTones(mon2, rec, queue_window_size,
                            min_group_cnt, min_score)]

\* trackTones on the second decoder
TrackSecond(c) ==
    \E f \in {Frame2(c)} :
    \E s1 \in {SeenBy(Self, mon2.own, f.m)} :
        /\ pc = "frames"
        /\ Len(fed) + Len(fed2) < MaxCalls
        /\ mon2' = f.out.self
        /\ fed2' = Append(fed2, f.rec)
        /\ tonesQ1' = s1.tonesQ1
        /\ tonesQ2' = s1.tonesQ2
        /\ tonesCnt1' = s1.tonesCnt1
        /\ tonesCnt2' = s1.tonesCnt2
        /\ tonesQ1Score' = s1.tonesQ1Score
        /\ tonesQ2Score' = s1.tonesQ2Score
        /\ tonesQ1MaxCnt' = s1.tonesQ1MaxCnt
        /\ tonesQ2MaxCnt' = s1.tonesQ2MaxCnt
        /\ lastSelcall' = s1.lastSelcall
        /\ lastSelcall_BS' = s1.lastSelcall_BS
        /\ UNCHANGED <<corr, trec, queue_window_size, min_group_cnt,
                       min_score, res, score_line, log, own, pc,
                       fed, run_M, run_S>>
        /\ UNCHANGED streamVars
        /\ UNCHANGED top2Vars

NextTwo ==
    \/ \E c \in TwoCorr : TrackFirst(c)
    \/ \E c \in TwoCorr : TrackSecond(c)

SpecTwo == InitTwo /\ [][NextTwo]_vars

\* ---------------------------------------------------- stream driver
\* the monitor variables, left alone by the reading of the stream
monitorVars ==
    <<corr, trec, queue_window_size, min_group_cnt, min_score,
      tonesQ1, tonesQ2, tonesCnt1, tonesCnt2,
      tonesQ1Score, tonesQ2Score, tonesQ1MaxCnt, tonesQ2MaxCnt,
      lastSelcall, lastSelcall_BS, res, score_line, log,
      own, mon2, fed2, fed, run_M, run_S,
      top2_vals, top2_excluded, top2_out>>

\* struct.unpack('<h', two_bytes): little-endian signed 16-bit
unpack_h(lo, hi) ==
    IF lo + 256 * hi >= 32768 THEN lo + 256 * hi - 65536 ELSE lo + 256 * hi

\* read_s16le: the loop unpacks data[idx:idx+2] while idx < len(data); a
\* last slice of one byte raises struct.error, which is caught, and the
\* loop breaks with the samples decoded so far
RECURSIVE read_s16le_loop(_, _, _)
read_s16le_loop(d, idx, int_list) ==
    IF idx < Len(d)
        THEN IF idx + 2 <= Len(d)
            THEN read_s16le_loop(d, idx + 2,
                    Append(int_list, unpack_h(d[idx + 1], d[idx + 2])))
            ELSE int_list
        ELSE int_list

read_s16le(d) == IF Len(d) = 0 THEN <<>> ELSE read_s16le_loop(d, 0, <<>>)

\* the byte values of the chunks read
Bytes == {0, 1, 255}

RECURSIVE ByteSeqs(_)
ByteSeqs(n) ==
    IF n = 0
        THEN {<<>>}
        ELSE {<<>>} \cup {Append(q, b) : q \in ByteSeqs(n - 1), b \in Bytes}

\* one pass of the while loop as far as the test of the decoded chunk:
\* the read, the decoding, and the break when no sample was decoded
ReadSamples(d) ==
    /\ pc = "read"
    /\ reads < MaxReads
    /\ data' = d
    /\ sig_noise' = read_s16le(d)
    /\ reads' = reads + 1
    /\ pc' = IF Len(read_s16le(d)) = 0 THEN "done" ELSE "read"
    /\ UNCHANGED <<inp_sig_rate, chunk, frames, frame, sums>>
    /\ UNCHANGED monitorVars

InitRead ==
    /\ corr = Zeros
    /\ trec = NoRecord
    /\ queue_window_size = 9
    /\ min_group_cnt = 3
    /\ min_score = 45
    /\ mon2 = NoMonitor
    /\ pc = "read"
    /\ InitStream
    /\ InitMonitor
    /\ InitTop2Idle

NextRead == \E d \in ByteSeqs(MaxBytes) : ReadSamples(d)

SpecRead == InitRead /\ [][NextRead]_vars

\* receiver.SAMPLE_RATES
SAMPLE_RATES ==
    (11025 :> [descimate |-> 1, sig_rate |-> 11025,
               frame_rate |-> 9, frame_len |-> 1225])
    @@ (22050 :> [descimate |-> 2, sig_rate |-> 11025,
                  frame_rate |-> 9, frame_len |-> 1225])
    @@ (44100 :> [descimate |-> 4, sig_rate |-> 11025,
                  frame_rate |-> 9, frame_len |-> 1225])
    @@ (48000 :> [descimate |-> 4, sig_rate |-> 12000,
                  frame_rate |-> 10, frame_len |-> 1200])

\* the getters; the driver is run with a rate of the table (--sig-rate
\* accepts no other)
getDecimate(sig_rate) == SAMPLE_RATES[sig_rate].descimate
getNewSigRate(sig_rate) == SAMPLE_RATES[sig_rate].sig_rate
getFrameLength(sig_rate) == SAMPLE_RATES[sig_rate].frame_len
getFrameRate(sig_rate) == SAMPLE_RATES[sig_rate].frame_rate

\* mutant: the chunk is never decimated
DecimatedLenNone(n, decimate) == n

\* len(signal.decimate(sig_noise, decimate)): every decimate-th sample of
\* the filtered chunk; the chunk is left alone when decimate is 1
DecimatedLen(n, decimate) ==
    IF decimate > 1 THEN (n + decimate - 1) \div decimate ELSE n

\* what a chunk carries: digital silence (every sample 0), or a steady
\* tone pair for its whole length
ChunkKinds == {"silence", "AB", "CD"}

\* the correlation sums np.abs(signal.correlate(...)).sum() of a frame,
\* one per tone: correlation is linear, so silence gives 0 for every tone;
\* a tone pair gives a large sum for its two tones, a small one elsewhere
SilentSums == [t \in Tones |-> 0]

FrameSums(kind) ==
    IF kind = "silence" THEN SilentSums
    ELSE IF kind = "AB"
        THEN [t \in Tones |-> IF t \in {0, 1} THEN 10 ^ 9 ELSE 10]
        ELSE [t \in Tones |-> IF t \in {2, 3} THEN 10 ^ 9 ELSE 10]

\* math.log10, on the powers of ten; it raises ValueError for 0
log10_raises(x) == x <= 0

log10(x) == CHOOSE k \in 0 .. 9 : 10 ^ k = x

\* the numbers of samples of the chunks read: none, one, one frame's
\* worth, a full second
ChunkLens(r) == {0, 1, getFrameLength(r) * getDecimate(r), r}

\* one read of the while loop: the chunk and its split into frames, or
\* the break on an empty chunk
ReadChunk(n, kind) ==
    /\ pc = "read"
    /\ reads < MaxReads
    /\ reads' = reads + 1
    /\ chunk' = [len |-> n, kind |-> IF n = 0 THEN "none" ELSE kind]
    /\ IF n = 0
        THEN /\ pc' = "done"
             /\ UNCHANGED <<frames, frame>>
        ELSE /\ pc' = "frames"
             /\ frames' = DecimatedLen(n, getDecimate(inp_sig_rate))
                            \div getFrameLength(inp_sig_rate)
             /\ frame' = 0
    /\ UNCHANGED <<data, sig_noise, inp_sig_rate, sums>>
    /\ UNCHANGED monitorVars

\* one frame of the for loop: the correlation of every tone, its log10,
\* the record, trackTones; log10 of a zero sum raises out of the driver
AnalyzeFrame ==
    /\ pc = "frames"
    /\ frame < frames
    /\ sums' = FrameSums(chunk.kind)
    /\ IF \E t \in Tones : log10_raises(FrameSums(chunk.kind)[t])
        THEN /\ pc' = "raised"
             /\ UNCHANGED frame
             /\ UNCHANGED monitorVars
        ELSE /\ \E c \in {[t \in Tones |-> log10(FrameSums(chunk.kind)[t])]} :
                \E f \in {Frame(c, TRUE)} : TrackFrame(c, f)
             /\ frame' = frame + 1
             /\ UNCHANGED <<mon2, fed2>>
    /\ UNCHANGED <<data, sig_noise, reads, inp_sig_rate, chunk, frames>>

\* the for loop is over: back to the read
EndChunk ==
    /\ pc = "frames"
    /\ frame = frames
    /\ pc' = "read"
    /\ UNCHANGED streamVars
    /\ UNCHANGED monitorVars

\* monitor_stream at each supported rate, with the default sensitivity
InitDriver ==
    /\ inp_sig_rate \in DOMAIN SAMPLE_RATES
    /\ queue_window_size = getFrameRate(inp_sig_rate)
    /\ min_group_cnt = 4
    /\ min_score = 45
    /\ corr = Zeros
    /\ trec = NoRecord
    /\ mon2 = NoMonitor
    /\ pc = "read"
    /\ data = <<>>
    /\ sig_noise = <<>>
    /\ reads = 0
    /\ chunk = NoChunk
    /\ frames = 0
    /\ frame = 0
    /\ sums = NoSums
    /\ InitMonitor
    /\ InitTop2Idle

NextStream ==
    \/ \E n \in ChunkLens(inp_sig_rate), kind \in ChunkKinds :
        ReadChunk(n, kind)
    \/ AnalyzeFrame
    \/ EndChunk

SpecStream == InitDriver /\ [][NextStream]_vars

\* ------------------------------------------------------------ claims
RECURSIVE SumCnt(_, _)
SumCnt(cnt, i) == IF i > Len(cnt) THEN 0 ELSE cnt[i].n + SumCnt(cnt, i + 1)

Called == Len(fed) > 0

\* every record of queue q carries the code tgc
AllTgc(q, tgc) == \A i \in 1 .. Len(q) : q[i].gtc = tgc

\* the dominant pair of a record, as a set of tone indexes
DomPair(rec) == {rec.max1idx, rec.max2idx}
DomPairs == {DomPair(fed[i]) : i \in 1 .. Len(fed)}

\* C1: after every trackTones call the counts of tonesCnt1 add up to the
\* number of records in Q1, and those of tonesCnt2 to the number in Q2.
C1_CountersMatchQueues ==
    Called =>
        /\ SumCnt(tonesCnt1, 1) = Len(tonesQ1)
        /\ SumCnt(tonesCnt2, 1) = Len(tonesQ2)

\* C2: after every trackTones call every entry of tonesQ1Score and of
\* tonesQ2Score is >= 0.
C2_ScoresNonNegative ==
    \A t \in Tones : tonesQ1Score[t] >= 0 /\ tonesQ2Score[t] >= 0

\* C3: neither method writes two events within one uninterrupted active
\* period: between two events of a method lies a call on which that
\* method's condition was false.
C3_OneEventPerActivePeriod == run_M <= 1 /\ run_S <= 1

\* C3 witness: both methods have written a second event, after a falling edge
C3_Witness ==
    /\ min_group_cnt >= 1 /\ min_score > 0
    /\ EventsOf(log, "SELCAL_BYMAXTONE") >= 2
    /\ EventsOf(log, "SELCAL_BYSCORE") >= 2

\* C4: whenever Q1 holds window_size records all of code X and Q2 holds
\* window_size records all of code Y # X (1 <= min_group_cnt <= window_size),
\* method 1 reports is_active with selcal "X-Y", also after an earlier
\* detection and its falling-edge reset.
C4_DetectedAgain ==
    \A i, j \in 1 .. Len(fed) :
        ( /\ 1 <= min_group_cnt /\ min_group_cnt <= queue_window_size
          /\ Len(tonesQ1) = queue_window_size
          /\ Len(tonesQ2) = queue_window_size
          /\ AllTgc(tonesQ1, fed[i].gtc)
          /\ AllTgc(tonesQ2, fed[j].gtc)
          /\ fed[i].gtc # fed[j].gtc )
        => ( /\ res.is_active
             /\ res.selcal = fed[i].gtc \o "-" \o fed[j].gtc )

\* C5 as stated: whenever method 1 reports is_active, tg1 # tg2 and neither
\* is None, for any min_group_cnt.
C5_ActiveGroupsDifferNotNone ==
    (Called /\ res.is_active) =>
        (res.tg1 # res.tg2 /\ res.tg1 # None /\ res.tg2 # None)

\* C5 amended: whenever method 1 reports is_active, tg1 # tg2 for any
\* min_group_cnt, and neither is None when min_group_cnt >= 1.
C5_ActiveGroupsDiffer ==
    (Called /\ res.is_active) =>
        /\ res.tg1 # res.tg2
        /\ (min_group_cnt >= 1 => (res.tg1 # None /\ res.tg2 # None))

\* C5 witness: method 1 active under a positive min_group_cnt
C5_Witness ==
    /\ Called /\ res.is_active /\ min_group_cnt >= 1
    /\ res.tg1_cnt >= min_group_cnt /\ res.tg2_cnt >= min_group_cnt

\* C6: whenever method 2 reports is_active_BS, the top-two pair of
\* tonesQ1Score and the top-two pair of tonesQ2Score share no tone index and
\* all four indexes are tone indexes in [0, 16).
C6_ScorePairsDisjointValid ==
    res.is_active_BS = "True" =>
        LET p1 == score_line.Q1.idx
            p2 == score_line.Q2.idx
        IN  /\ {p1[1], p1[2]} \cap {p2[1], p2[2]} = {}
            /\ {p1[1], p1[2], p2[1], p2[2]} \subseteq Tones

\* C6 witness: method 2 active under a positive min_score
C6_Witness ==
    /\ res.is_active_BS = "True" /\ min_score > 0
    /\ Len(lastSelcall_BS) = 2

\* C7: when every record fed to a fresh decoder has the same code and
\* min_group_cnt >= 1, method 1 is never active and writes no event.
C7_SinglePairNeverActive ==
    ( /\ Called /\ min_group_cnt >= 1
      /\ \A i \in 1 .. Len(fed) : fed[i].gtc = fed[1].gtc )
    => ( /\ ~res.is_active
         /\ EventsOf(log, "SELCAL_BYMAXTONE") = 0 )

\* C7 witness: both windows full of one code, counted min_group_cnt times
\* or more in each, fed as two different records of that code
C7_Witness ==
    /\ Called /\ min_group_cnt >= 1
    /\ \A i \in 1 .. Len(fed) : fed[i].gtc = fed[1].gtc
    /\ \E i \in 1 .. Len(fed) : fed[i] # fed[1]
    /\ Len(tonesQ1) = queue_window_size /\ Len(tonesQ2) = queue_window_size
    /\ res.tg2_cnt >= min_group_cnt
    /\ SumCnt(tonesCnt1, 1) >= min_group_cnt

\* C8: for min_score > 0, when every record in Q1 has dominant pair P1 and
\* every record in Q2 has dominant pair P2 and P1, P2 share a tone index,
\* method 2 is not active (and so writes no event).
C8_OverlapNotActiveByScore ==
    \A P1, P2 \in DomPairs :
        ( /\ min_score > 0
          /\ \A i \in 1 .. Len(tonesQ1) : DomPair(tonesQ1[i]) = P1
          /\ \A i \in 1 .. Len(tonesQ2) : DomPair(tonesQ2[i]) = P2
          /\ P1 \cap P2 # {} )
        => res.is_active_BS # "True"

\* C9: for every TonesRecord max1idx and max2idx are tone indexes in
\* [0, 16) and max1idx < max2idx (so they differ).
C9_MaxIndexesValidOrdered ==
    trec # NoRecord =>
        /\ trec.max1idx \in Tones
        /\ trec.max2idx \in Tones
        /\ trec.max1idx < trec.max2idx

\* C10: for every TonesRecord scores[max1idx] = scores[max2idx] = 1.0 and
\* every score is one of 0.0, 0.2, 0.4, 0.6, 0.8, 1.0.
C10_ScoresOfMaxAndGrid ==
    trec # NoRecord =>
        /\ trec.scores[PyIdx(trec.max1idx)] = 10
        /\ trec.scores[PyIdx(trec.max2idx)] = 10
        /\ \A t \in Tones : trec.scores[t] \in {0, 2, 4, 6, 8, 10}


\* C11 as stated: for every TonesRecord and every tone i, scores[i] = 0
\* implies corr[i] <= avg.
C11_ZeroScoreAtMostAvg ==
    trec # NoRecord =>
        \A t \in Tones :
            trec.scores[t] = 0 => NumTones * trec.corr[t] <= trec.tot

\* C11 amended: for every TonesRecord and every tone i, scores[i] = 0
\* implies corr[i] < avg + bin, where bin = (max - avg) / 5: the tone is
\* at most average or lies in the lowest bin above it.
C11_ZeroScoreBelowFirstBin ==
    trec # NoRecord =>
        \A t \in Tones :
            trec.scores[t] = 0 =>
                \/ NumTones * trec.corr[t] <= trec.tot
                \/ score_bin_size * (NumTones * trec.corr[t] - trec.tot)
                     < NumTones * trec.max - trec.tot

\* C11 witness: a record with two valid maxima in which a tone strictly
\* above the average scores 0 and another tone scores 0.4
C11_Witness ==
    /\ trec # NoRecord
    /\ trec.max1idx \in Tones /\ trec.max2idx \in Tones
    /\ \E t \in Tones :
        trec.scores[t] = 0 /\ NumTones * trec.corr[t] > trec.tot
    /\ \E t \in Tones : trec.scores[t] = 4


\* C12: after every trackTones call with a fixed window_size w, Q1 holds at
\* most w records and Q2 holds at most w records.
C12_QueuesWithinWindow ==
    /\ Len(tonesQ1) <= queue_window_size
    /\ Len(tonesQ2) <= queue_window_size

\* C12 witness: both queues full after a call that dropped Q1's oldest
C12_Witness ==
    /\ Len(fed) > 2 * queue_window_size
    /\ Len(tonesQ1) = queue_window_size
    /\ Len(tonesQ2) = queue_window_size


\* C13: a failure to append an event to the log on a rising edge of either
\* method is not fatal: the trackTones call returns and the driver goes on
\* with the following frames.
C13_LogFailureNotFatal == pc # "raised"


\* C14: two decoders of one process share no state: a step that feeds no
\* record to the first decoder (a trackTones call on the second) leaves
\* the first decoder's Q1, Q2, cnt1, cnt2, score arrays and max-count
\* arrays unchanged.
C14_InstancesShareNoState ==
    [][fed' = fed =>
        UNCHANGED <<tonesQ1, tonesQ2, tonesCnt1, tonesCnt2,
                    tonesQ1Score, tonesQ2Score,
                    tonesQ1MaxCnt, tonesQ2MaxCnt>>]_vars


\* C15: a chunk with an odd number of bytes is truncated to its complete
\* 16-bit samples, floor(bytes/2) of them, in order, and the driver goes on
\* with the next read; only a zero-length read ends the stream.
C15_OddChunkTruncatedAndContinues ==
    reads > 0 =>
        /\ Len(sig_noise) = Len(data) \div 2
        /\ \A i \in 1 .. Len(sig_noise) :
            sig_noise[i] = unpack_h(data[2 * i - 1], data[2 * i])
        /\ (pc = "done") <=> (Len(data) = 0)


\* C16: the analysis of every frame succeeds and yields a TonesRecord that
\* is then tracked, also for a frame of digital silence, whose correlation
\* sums are 0 for every tone; the driver does not abort on such a frame.
C16_SilentFrameTracked ==
    sums = SilentSums =>
        /\ pc # "raised"
        /\ Len(fed) > 0
        /\ fed[Len(fed)] = trec

\* C17: for each supported input rate r, sig_rate = r / decimate,
\* frame_len x frame_rate differs from sig_rate by at most 25 samples, a
\* full one-second chunk of r samples is split into exactly frame_rate
\* frames, and frame_rate is the window_size passed to the decoder.
C17_RateTableConsistent ==
    LET r == inp_sig_rate
    IN  /\ getNewSigRate(r) * getDecimate(r) = r
        /\ getFrameLength(r) * getFrameRate(r) - getNewSigRate(r) <= 25
        /\ getNewSigRate(r) - getFrameLength(r) * getFrameRate(r) <= 25
        /\ (chunk.len = r => frames = getFrameRate(r))
        /\ queue_window_size = getFrameRate(r)

\* C17 witness: at 48000 a full second has been split and all its frames
\* tracked
C17_Witness ==
    /\ inp_sig_rate = 48000
    /\ chunk.len = inp_sig_rate
    /\ frames = 10 /\ frame = frames
    /\ Len(fed) >= frames


\* C18: on a fresh decoder with window_size w and min_score > 0, method 2
\* is not active and writes no SELCAL_BYSCORE event on any of the first w
\* trackTones calls, whatever records are fed.
C18_WarmUpByScore ==
    (Called /\ Len(fed) <= queue_window_size /\ min_score > 0) =>
        /\ res.is_active_BS # "True"
        /\ EventsOf(log, "SELCAL_BYSCORE") = 0
        /\ Len(lastSelcall_BS) = 0

\* C18 witness: the w-th call, with the two top scores of Q2 at min_score
\* or above
C18_Witness ==
    /\ Called /\ Len(fed) = queue_window_size /\ min_score > 0
    /\ queue_window_size > 1
    /\ score_line.Q2.val[1] >= min_score
    /\ score_line.Q2.val[2] >= min_score

\* C19: on a falling edge of method 2 (the score condition is false while
\* lastSelcall_BS is non-empty), after the call all entries of
\* tonesQ1Score, tonesQ2Score, tonesQ1MaxCnt and tonesQ2MaxCnt are zero and
\* lastSelcall_BS is empty.
C19_FallingEdgeZeroesAll ==
    [][(Len(lastSelcall_BS) > 0 /\ Len(lastSelcall_BS') = 0) =>
        /\ tonesQ1Score' = Zeros
        /\ tonesQ2Score' = Zeros
        /\ tonesQ1MaxCnt' = Zeros
        /\ tonesQ2MaxCnt' = Zeros]_vars

\* the records of queue q that have tone i as max1idx or max2idx
MaxCntOf(q, i) ==
    Cardinality({k \in 1 .. Len(q) :
                    (q[k].max1idx = i) \/ (q[k].max2idx = i)})

\* C20: after every trackTones call on a decoder that has had no method-2
\* reset (here: method 2 has never been active), tonesQ1MaxCnt[i] is the
\* number of records in Q1 with max1idx = i or max2idx = i, and
\* tonesQ2MaxCnt[i] the same count over Q2.
C20_MaxCntCountsQueue ==
    (Called /\ pc # "raised" /\ Len(lastSelcall_BS) = 0
        /\ EventsOf(log, "SELCAL_BYSCORE") = 0) =>
        \A i \in Tones :
            /\ tonesQ1MaxCnt[i] = MaxCntOf(tonesQ1, i)
            /\ tonesQ2MaxCnt[i] = MaxCntOf(tonesQ2, i)

\* the smaller of two numbers
Min(a, b) == IF a < b THEN a ELSE b

\* the last k records fed, in arrival order
LastFed(k) == SubSeq(fed, Len(fed) - k + 1, Len(fed))

AfterMaintain(rec) == Maintain(Self, rec, queue_window_size)
AfterMaxTones(rec) ==
    DecideByMaxTones(AfterMaintain(rec), min_group_cnt, NewRes(rec)).self

\* C22: a call on which method 1 has its falling edge leaves Q1 and Q2 as
\* the queue maintenance of that call made them, and the reset of method 1
\* changes none of the score arrays, max-count arrays or method 2's latch;
\* a call on which method 2 has its falling edge leaves Q1, Q2, both
\* counter dicts and method 1's latch as method 1 left them.
C22_FallingEdgesLeaveTheRest ==
    [][fed' # fed =>
        /\ (Len(lastSelcall) > 0 /\ Len(lastSelcall') = 0) =>
            /\ tonesQ1' = AfterMaintain(trec').tonesQ1
            /\ tonesQ2' = AfterMaintain(trec').tonesQ2
            /\ \A k \in {"tonesQ1Score", "tonesQ2Score", "tonesQ1MaxCnt",
                          "tonesQ2MaxCnt", "lastSelcall_BS"} :
                    AfterMaxTones(trec')[k] = AfterMaintain(trec')[k]
            /\ (lastSelcall_BS' = lastSelcall_BS) =>
                /\ tonesQ1Score' = AfterMaintain(trec').tonesQ1Score
                /\ tonesQ2Score' = AfterMaintain(trec').tonesQ2Score
                /\ tonesQ1MaxCnt' = AfterMaintain(trec').tonesQ1MaxCnt
                /\ tonesQ2MaxCnt' = AfterMaintain(trec').tonesQ2MaxCnt
        /\ (Len(lastSelcall_BS) > 0 /\ Len(lastSelcall_BS') = 0) =>
            /\ tonesQ1' = AfterMaxTones(trec').tonesQ1
            /\ tonesQ2' = AfterMaxTones(trec').tonesQ2
            /\ tonesCnt1' = AfterMaxTones(trec').tonesCnt1
            /\ tonesCnt2' = AfterMaxTones(trec').tonesCnt2
            /\ lastSelcall' = AfterMaxTones(trec').lastSelcall]_vars

\* a call just had the falling edge of both methods: the counter dicts are
\* empty and tonesQ1MaxCnt is zero although both queues hold records
C22_Witness ==
    /\ Called
    /\ Len(tonesQ1) > 0 /\ Len(tonesQ2) > 0
    /\ tonesCnt1 = <<>> /\ tonesCnt2 = <<>> /\ lastSelcall = <<>>
    /\ tonesQ1MaxCnt = Zeros /\ lastSelcall_BS = <<>>
    /\ EventsOf(log, "SELCAL_BYMAXTONE") > 0
    /\ EventsOf(log, "SELCAL_BYSCORE") > 0

\* the indexes top2 may return
Candidates == Tones \ top2_excluded

\* C23: for a vector of values >= 0 and excluded indexes that leave two
\* candidates or more, top2 returns two different candidates in ascending
\* index order, val holds their values, and no other candidate has a value
\* above either of them.
C23_Top2TwoLargestAscending ==
    (/\ top2_out # NoTop2
     /\ \A t \in Tones : top2_vals[t] >= 0
     /\ Cardinality(Candidates) >= 2)
    => /\ top2_out.idx[1] \in Candidates
       /\ top2_out.idx[2] \in Candidates
       /\ top2_out.idx[1] < top2_out.idx[2]
       /\ top2_out.val[1] = top2_vals[top2_out.idx[1]]
       /\ top2_out.val[2] = top2_vals[top2_out.idx[2]]
       /\ \A t \in Candidates \ {top2_out.idx[1], top2_out.idx[2]} :
            /\ top2_vals[t] <= top2_out.val[1]
            /\ top2_vals[t] <= top2_out.val[2]

\* top2 has returned; the larger of the two values sits at the lower
\* index, an excluded index holds a value above both, and a candidate that
\* was not returned ties with the smaller one
C23_Witness ==
    /\ top2_out # NoTop2
    /\ Cardinality(Candidates) >= 2
    /\ top2_out.val[1] > top2_out.val[2]
    /\ \E t \in top2_excluded : top2_vals[t] > top2_out.val[1]
    /\ \E t \in Candidates \ {top2_out.idx[1], top2_out.idx[2]} :
            top2_vals[t] = top2_out.val[2]

\* the code of the latest event a method wrote to the log
RECURSIVE LastEventOf(_, _, _)
LastEventOf(l, i, tag) ==
    IF i = 0 THEN None
    ELSE IF l[i].tag = tag THEN l[i].selcal
    ELSE LastEventOf(l, i - 1, tag)

\* C24: while method 1 is active the selcal reported is the code of the
\* event written to the log when the run of active calls began, and it is
\* the same from one call of the run to the next.
C24_SelcalConstantWhileActive ==
    /\ []((Called /\ res.is_active)
            => res.selcal = LastEventOf(log, Len(log), "SELCAL_BYMAXTONE"))
    /\ [][(fed' # fed /\ pc' # "raised" /\ res.is_active /\ res'.is_active)
            => res'.selcal = res.selcal]_vars
====
